---- MODULE Spec2Model ----
(***************************************************************************)
(* Model of DummyEmbeddingDimensionalityReductionModel                     *)
(* (embeddings_pipelines/models/embedding_dimensionality_reduction_models)  *)
(* and of the caller's 1-D numpy arrays it slices.                          *)
(*                                                                         *)
(* An ndarray is an object [buf, off, len]: a window on a data buffer of    *)
(* the heap.  Basic slicing of an ndarray (embedding[:n]) makes a new       *)
(* ndarray object on the SAME buffer (a view); it copies nothing.           *)
(***************************************************************************)
EXTENDS Integers, Sequences, FiniteSets

\* ---- bounds of the model ------------------------------------------------
MaxLen == 2        \* longest embedding the caller makes
MaxVal == 2        \* element values are 1..MaxVal
MaxSize == 3       \* reduced_embedding_size ranges over -MaxSize..MaxSize
MaxBuilds == 2     \* the count of build() calls saturates here

Values == 1..MaxVal
Sizes == (0 - MaxSize)..MaxSize
Embeddings == UNION {[1..n -> Values] : n \in 0..MaxLen}

VARIABLES
    self,        \* the reducer's attributes (its __dict__)
    heap,        \* data buffers, by buffer number
    embedding,   \* the caller's input ndarray object
    result,      \* the ndarray object the last predict returned, or NoneObj
    exc,         \* exception raised by the last call, "None" if it returned
    lastCall,    \* name of the last call made
    ctor,        \* history: the argument the constructor was given
    builds,      \* history: build() calls so far (saturating)
    disposed,    \* history: dispose() has been called
    returned     \* history: the elements of result when predict returned

vars == <<self, heap, embedding, result, exc, lastCall, ctor, builds, disposed, returned>>

\* ---- numpy arrays ---------------------------------------------------------
NoneObj == [buf |-> 0, off |-> 0, len |-> 0]

\* the elements seen through an ndarray object
Read(a) == [i \in 1..a.len |-> heap[a.buf][a.off + i]]

\* a[key] = value, key a valid 0-based index: writes the buffer a looks at
SetItem(a, key, value) ==
    [heap EXCEPT ![a.buf] = [@ EXCEPT ![a.off + key + 1] = value]]

\* variant: the stop index taken as the last index kept
PySliceStopInclusive(stop, length) ==
    IF stop < 0
    THEN (IF stop + length < 0 THEN 0 ELSE stop + length)
    ELSE (IF stop + 1 > length THEN length ELSE stop + 1)

\* variant: a negative stop clamped to 0
PySliceStopClampNegative(stop, length) ==
    IF stop < 0 THEN 0
    ELSE (IF stop > length THEN length ELSE stop)

\* the stop index of the slice [:stop] of a sequence of `length` elements:
\* a negative stop counts from the end, and every stop is clamped into 0..length
PySliceStop(stop, length) ==
    IF stop < 0
    THEN (IF stop + length < 0 THEN 0 ELSE stop + length)
    ELSE (IF stop > length THEN length ELSE stop)

\* ---- the reducer ----------------------------------------------------------
\* __init__(self, reduced_embedding_size), and the caller's first array
Init ==
    \E n \in Sizes, e \in Embeddings :
        /\ self = [reduced_embedding_size |-> n]
        /\ ctor = n
        /\ heap = <<e>>
        /\ embedding = [buf |-> 1, off |-> 0, len |-> Len(e)]
        /\ result = NoneObj
        /\ exc = "None"
        /\ lastCall = "__init__"
        /\ builds = 0
        /\ disposed = FALSE
        /\ returned = <<>>

\* variant: build resets the configured size
BuildResets ==
    /\ self' = [self EXCEPT !.reduced_embedding_size = 0]
    /\ exc' = "None"
    /\ lastCall' = "build"
    /\ builds' = IF builds < MaxBuilds THEN builds + 1 ELSE builds
    /\ UNCHANGED <<heap, embedding, result, ctor, disposed, returned>>

\* build(self): pass
Build ==
    /\ exc' = "None"
    /\ lastCall' = "build"
    /\ builds' = IF builds < MaxBuilds THEN builds + 1 ELSE builds
    /\ UNCHANGED <<self, heap, embedding, result, ctor, disposed, returned>>

\* variant: the slice [-n:], the last elements instead of the first
PredictTail ==
    LET n == PySliceStop(self.reduced_embedding_size, embedding.len) IN
    /\ result' = [buf |-> embedding.buf, off |-> embedding.off + embedding.len - n, len |-> n]
    /\ returned' = [i \in 1..n |-> heap[embedding.buf][embedding.off + embedding.len - n + i]]
    /\ exc' = "None"
    /\ lastCall' = "predict"
    /\ UNCHANGED <<self, heap, embedding, ctor, builds, disposed>>

\* variant: a size above the input's length is refused
PredictStrict ==
    LET n == PySliceStop(self.reduced_embedding_size, embedding.len) IN
    /\ IF self.reduced_embedding_size > embedding.len
       THEN /\ result' = NoneObj
            /\ returned' = <<>>
            /\ exc' = "IndexError"
       ELSE /\ result' = [buf |-> embedding.buf, off |-> embedding.off, len |-> n]
            /\ returned' = [i \in 1..n |-> heap[embedding.buf][embedding.off + i]]
            /\ exc' = "None"
    /\ lastCall' = "predict"
    /\ UNCHANGED <<self, heap, embedding, ctor, builds, disposed>>

\* variant: the input is shortened in place and returned
PredictInPlace ==
    LET n == PySliceStop(self.reduced_embedding_size, embedding.len) IN
    /\ heap' = [heap EXCEPT ![embedding.buf] = SubSeq(@, 1, embedding.off + n)]
    /\ embedding' = [embedding EXCEPT !.len = n]
    /\ result' = embedding'
    /\ returned' = [i \in 1..n |-> heap[embedding.buf][embedding.off + i]]
    /\ exc' = "None"
    /\ lastCall' = "predict"
    /\ UNCHANGED <<self, ctor, builds, disposed>>

\* variant: the prefix is copied to a buffer of its own
PredictCopy ==
    LET n == PySliceStop(self.reduced_embedding_size, embedding.len)
        copy == [i \in 1..n |-> heap[embedding.buf][embedding.off + i]] IN
    /\ heap' = <<heap[embedding.buf], copy>>
    /\ embedding' = [embedding EXCEPT !.buf = 1]
    /\ result' = [buf |-> 2, off |-> 0, len |-> n]
    /\ returned' = copy
    /\ exc' = "None"
    /\ lastCall' = "predict"
    /\ UNCHANGED <<self, ctor, builds, disposed>>

\* predict(self, embedding): return embedding[:self.reduced_embedding_size]
\* start is 0, so the view begins where the input begins
Predict ==
    LET n == PySliceStop(self.reduced_embedding_size, embedding.len) IN
    /\ result' = [buf |-> embedding.buf, off |-> embedding.off, len |-> n]
    /\ returned' = [i \in 1..n |-> heap[embedding.buf][embedding.off + i]]
    /\ exc' = "None"
    /\ lastCall' = "predict"
    /\ UNCHANGED <<self, heap, embedding, ctor, builds, disposed>>

\* variant: dispose takes the instance and clears its attribute
DisposeClears ==
    /\ self' = [self EXCEPT !.reduced_embedding_size = 0]
    /\ exc' = "None"
    /\ lastCall' = "dispose"
    /\ disposed' = TRUE
    /\ UNCHANGED <<heap, embedding, result, ctor, builds, returned>>

\* reducer.dispose(): dispose is declared with no parameter, so the bound call,
\* which passes the instance, raises TypeError before the body runs
Dispose ==
    /\ exc' = "TypeError"
    /\ lastCall' = "dispose"
    /\ disposed' = TRUE
    /\ UNCHANGED <<self, heap, embedding, result, ctor, builds, returned>>

\* ---- the caller -----------------------------------------------------------
\* the caller makes a new input array and drops the old arrays
NewEmbedding(e) ==
    /\ heap' = <<e>>
    /\ embedding' = [buf |-> 1, off |-> 0, len |-> Len(e)]
    /\ result' = NoneObj
    /\ returned' = <<>>
    /\ exc' = "None"
    /\ lastCall' = "array"
    /\ UNCHANGED <<self, ctor, builds, disposed>>

\* embedding[key] = value, after predict returned
SetInput(key, value) ==
    /\ result # NoneObj
    /\ key < embedding.len
    /\ heap' = SetItem(embedding, key, value)
    /\ exc' = "None"
    /\ lastCall' = "setitem_embedding"
    /\ UNCHANGED <<self, embedding, result, ctor, builds, disposed, returned>>

\* result[key] = value, on the array predict returned
SetResult(key, value) ==
    /\ result # NoneObj
    /\ key < result.len
    /\ heap' = SetItem(result, key, value)
    /\ exc' = "None"
    /\ lastCall' = "setitem_result"
    /\ UNCHANGED <<self, embedding, result, ctor, builds, disposed, returned>>

Next ==
    \/ Build
    \/ Predict
    \/ Dispose
    \/ \E e \in Embeddings : NewEmbedding(e)
    \/ \E key \in 0..(MaxLen - 1), value \in Values : SetInput(key, value)
    \/ \E key \in 0..(MaxLen - 1), value \in Values : SetResult(key, value)

Spec == Init /\ [][Next]_vars

Min(a, b) == IF a < b THEN a ELSE b
Max(a, b) == IF a > b THEN a ELSE b

\* ---- claims ---------------------------------------------------------------

\* C1 (as stated): for every integer reduced_embedding_size, the array predict
\* returns has length min(reduced_embedding_size, length(embedding)).
C1_LengthIsMinAnySize ==
    lastCall = "predict" =>
        result.len = Min(self.reduced_embedding_size, embedding.len)

\* C1 (amended): for every reduced_embedding_size >= 0, the array predict
\* returns has length min(reduced_embedding_size, length(embedding)): size 0
\* and the empty embedding give an empty result, a size above the input's
\* length gives a result as long as the input.
C1_LengthIsMinNonNegative ==
    (lastCall = "predict" /\ self.reduced_embedding_size >= 0) =>
        /\ Len(Read(result)) = Min(self.reduced_embedding_size, embedding.len)
        /\ (self.reduced_embedding_size = 0 => Read(result) = <<>>)
        /\ (embedding.len = 0 => Read(result) = <<>>)
        /\ (self.reduced_embedding_size > embedding.len =>
                Len(Read(result)) = embedding.len)

\* C1 witness: predict returned with a size above a non-empty input's length
C1_Witness ==
    /\ lastCall = "predict"
    /\ embedding.len > 0
    /\ self.reduced_embedding_size > embedding.len
    /\ Len(Read(result)) = embedding.len

\* C2: predict(embedding)[i] = embedding[i] for every 0 <= i <
\* min(reduced_embedding_size, length(embedding)), and the result is a leading
\* prefix of the input: no element comes from elsewhere in the input.
C2_ResultIsLeadingPrefix ==
    lastCall = "predict" =>
        /\ \A i \in 0..(Min(self.reduced_embedding_size, embedding.len) - 1) :
               /\ i + 1 \in DOMAIN Read(result)
               /\ Read(result)[i + 1] = Read(embedding)[i + 1]
        /\ Len(Read(result)) <= embedding.len
        /\ \A j \in DOMAIN Read(result) : Read(result)[j] = Read(embedding)[j]

\* C2 witness: predict cut an input whose first and last elements differ
C2_Witness ==
    /\ lastCall = "predict"
    /\ self.reduced_embedding_size > 0
    /\ self.reduced_embedding_size < embedding.len
    /\ Read(embedding)[1] # Read(embedding)[embedding.len]
    /\ Len(Read(result)) = self.reduced_embedding_size

\* C3: dispose() called on a constructed reducer never raises.
C3_DisposeNeverRaises ==
    lastCall = "dispose" => exc = "None"

\* C4: construct, build and predict never raise, for any integer size and any
\* finite embedding, and predict returns an array.
C4_NoRaise ==
    /\ lastCall \in {"__init__", "build", "predict"} => exc = "None"
    /\ lastCall = "predict" => result # NoneObj

\* C4 witness: predict returned with a size above the input's length, the
\* case a bounds-checked access would refuse
C4_Witness ==
    /\ lastCall = "predict"
    /\ self.reduced_embedding_size > embedding.len
    /\ exc = "None"
    /\ result # NoneObj

\* C5: whatever build() calls came before, predict returns what a reducer
\* made with the same size and never built returns for the same embedding.
C5_BuildIsNoOpForPredict ==
    lastCall = "predict" =>
        Read(result) = SubSeq(Read(embedding), 1, PySliceStop(ctor, embedding.len))

\* C5 witness: predict returned a non-empty result after several builds
C5_Witness ==
    /\ lastCall = "predict"
    /\ builds = MaxBuilds
    /\ Len(Read(result)) > 0

\* C6: the reducer's whole state is the one attribute the constructor set, with
\* the value the constructor was given, in every reachable state.
C6_StateFixed ==
    self = [reduced_embedding_size |-> ctor]

\* C6 witness: build, predict and dispose have all been called
C6_Witness ==
    /\ builds > 0
    /\ disposed
    /\ result # NoneObj
    /\ self = [reduced_embedding_size |-> ctor]

\* C7: a predict call leaves the input array as it was: same length, same
\* element at every index.
C7_PredictKeepsInput ==
    [][lastCall' = "predict" =>
          /\ embedding'.len = embedding.len
          /\ Read(embedding)' = Read(embedding)]_vars

\* C7 witness: predict returned fewer elements than the input still has
C7_Witness ==
    /\ lastCall = "predict"
    /\ Len(Read(result)) < Len(Read(embedding))

\* C8: the array predict returns is shorter than the input embedding.
C8_ResultShorterThanInput ==
    lastCall = "predict" => Len(Read(result)) < Len(Read(embedding))

\* C9 (as stated): after predict returned, an in-place change to the input does
\* not change the result, and an in-place change to the result does not change
\* the input.
C9_NoAliasing ==
    [][/\ lastCall' = "setitem_embedding" => Read(result)' = Read(result)
       /\ lastCall' = "setitem_result" => Read(embedding)' = Read(embedding)]_vars

\* C9 (amended): the result is a view on the input's storage: at every moment
\* after predict returned, also after in-place changes made through the input
\* or through the result, the result's elements are the input's current
\* leading elements.
C9_ResultIsViewOfInput ==
    result # NoneObj =>
        Read(result) = SubSeq(Read(embedding), 1, result.len)

\* C9 witness: the result no longer holds the elements it held when predict
\* returned
C9_Witness ==
    /\ result # NoneObj
    /\ lastCall \in {"setitem_embedding", "setitem_result"}
    /\ Read(result) # returned

\* C10: with a negative size -k, predict returns the input without its last k
\* elements: the prefix of length max(0, length(embedding) - k).
C10_NegativeSizeDropsTail ==
    (lastCall = "predict" /\ self.reduced_embedding_size < 0) =>
        Read(result) =
            SubSeq(Read(embedding), 1,
                   Max(0, embedding.len + self.reduced_embedding_size))

\* C10 witness: a negative size left a non-empty result
C10_Witness ==
    /\ lastCall = "predict"
    /\ self.reduced_embedding_size < 0
    /\ Len(Read(result)) > 0
    /\ Len(Read(result)) < embedding.len

====
